---- MODULE Spec2Model ----
(***************************************************************************)
(* A model of lesson1/hw.py: the tool functions calculate and              *)
(* get_random_fact, the registry available_functions, and run_agent, the   *)
(* single-round tool-calling loop, driven by the four example queries of   *)
(* the script's entry point.                                               *)
(*                                                                         *)
(* Python values are tagged records, so that values of different Python    *)
(* types can be compared:                                                  *)
(*   [int |-> n]      an int                                               *)
(*   [str |-> toks]   a str, as the sequence of the pieces it was built    *)
(*                    from (a literal is one piece, an f-string or a       *)
(*                    concatenation several)                               *)
(*   [float |-> q]    the float nearest num/den, q = [num |-> a, den |-> b]*)
(*   [none |-> TRUE]  None (JSON null)                                     *)
(*   [arr |-> s]      a list (JSON array)                                  *)
(*   [obj |-> f]      a dict decoded from a JSON object, f a function of   *)
(*                    its keys                                             *)
(*   [dict |-> ps]    a dict built by the program, as the sequence of its  *)
(*                    <<key, value>> pairs in insertion order              *)
(*   [raise |-> e]    not a value: the call raised exception e             *)
(***************************************************************************)
EXTENDS Integers, Sequences, FiniteSets, TLC

VARIABLES
    run,              \* which example query of __main__ is being run (1..4)
    pc,               \* position of the process inside run_agent / __main__
    messages,         \* the conversation (local of run_agent)
    response_message, \* response.choices[0].message of the first call
    tool_calls,       \* response_message.tool_calls (None and [] are both <<>>)
    i,                \* index of the tool_call the for loop is at
    final_response,   \* message of the second call's response
    final_message,    \* the final answer printed at line 190
    returned,         \* <<>> while run_agent runs, <<v>> once it returned v
    exception,        \* the exception that left run_agent, "" when none
    requestLog,       \* chat-completion requests issued by this invocation
    endpointFailures, \* how many of them the endpoint failed
    executed,         \* tool function bodies entered by this invocation
    probe             \* a direct call of one tool function: input and result

vars == <<run, pc, messages, response_message, tool_calls, i, final_response,
          final_message, returned, exception, requestLog, endpointFailures,
          executed, probe>>

agentVars == <<run, pc, messages, response_message, tool_calls, i, final_response,
               final_message, returned, exception, requestLog, endpointFailures,
               executed>>

(***************************************************************************)
(* Bounds                                                                  *)
(***************************************************************************)
\* most tool-invocation requests in one model response
MaxCalls == 2
\* direct calls of calculate take their integer operands from -MaxInt..MaxInt
MaxInt == 3

(***************************************************************************)
(* Python values                                                           *)
(***************************************************************************)
None == [none |-> TRUE]
S(piece) == [str |-> <<piece>>]
PyInt(n) == [int |-> n]
Raise(e) == [raise |-> e]

IsInt(v) == "int" \in DOMAIN v
IsStr(v) == "str" \in DOMAIN v
IsArr(v) == "arr" \in DOMAIN v
IsObj(v) == "obj" \in DOMAIN v
IsDict(v) == "dict" \in DOMAIN v
IsRaise(v) == "raise" \in DOMAIN v

\* str(v), and {v} inside an f-string
PyStr(v) ==
    IF IsStr(v) THEN v.str
    ELSE IF IsInt(v) THEN <<ToString(v.int)>>
    ELSE IF "float" \in DOMAIN v
         THEN <<"float ", ToString(v.float.num), "/", ToString(v.float.den)>>
    ELSE IF IsArr(v) THEN <<"[", "]">>
    ELSE <<"None">>

\* s * n for a str s and an int n
RECURSIVE Repeat(_, _)
Repeat(toks, n) == IF n <= 0 THEN <<>> ELSE toks \o Repeat(toks, n - 1)

\* json.loads: a text is [json |-> v] when it encodes the value v, and
\* [text |-> "malformed"] when it encodes none
JsonLoads(text) ==
    IF "json" \in DOMAIN text THEN text.json ELSE Raise("JSONDecodeError")

\* json.dumps of a value
RECURSIVE JsonDumps(_)
JsonDumpsPairs(ps) ==
    LET RECURSIVE Go(_)
        Go(k) == IF k > Len(ps) THEN <<>>
                 ELSE (IF k > 1 THEN <<", ">> ELSE <<>>)
                      \o <<"\"", ps[k][1], "\"", ": ">>
                      \o JsonDumps(ps[k][2]) \o Go(k + 1)
    IN  Go(1)
JsonDumps(v) ==
    IF IsDict(v) THEN <<"{">> \o JsonDumpsPairs(v.dict) \o <<"}">>
    ELSE IF IsStr(v) THEN <<"\"">> \o v.str \o <<"\"">>
    ELSE IF IsInt(v) THEN <<ToString(v.int)>>
    ELSE IF IsArr(v) THEN <<"[", "]">>
    ELSE <<"null">>

Keys(d) == {d.dict[k][1] : k \in 1..Len(d.dict)}

(***************************************************************************)
(* calculate                                                               *)
(***************************************************************************)
OperationNames == {"add", "subtract", "multiply", "divide"}

\* a + b
PyAdd(a, b) ==
    IF IsInt(a) /\ IsInt(b) THEN PyInt(a.int + b.int)
    ELSE IF IsStr(a) /\ IsStr(b) THEN [str |-> a.str \o b.str]
    ELSE Raise("TypeError")

\* a - b
PySub(a, b) ==
    IF IsInt(a) /\ IsInt(b) THEN PyInt(a.int - b.int) ELSE Raise("TypeError")

\* a * b
PyMul(a, b) ==
    IF IsInt(a) /\ IsInt(b) THEN PyInt(a.int * b.int)
    ELSE IF IsStr(a) /\ IsInt(b) THEN [str |-> Repeat(a.str, b.int)]
    ELSE IF IsInt(a) /\ IsStr(b) THEN [str |-> Repeat(b.str, a.int)]
    ELSE Raise("TypeError")

\* a / b if b != 0 else "Error: Division by zero"
PyDivide(a, b) ==
    IF ~(IsInt(b) /\ b.int = 0)
    THEN IF IsInt(a) /\ IsInt(b)
         THEN [float |-> [num |-> a.int, den |-> b.int]]
         ELSE Raise("TypeError")
    ELSE S("Error: Division by zero")

\* calculate with the division left unguarded and the operation left out of
\* the message
Calculate_RaisesOnZero(operation, x, y) ==
    IF ~(IsStr(operation) /\ Len(operation.str) = 1
            /\ operation.str[1] \in OperationNames)
    THEN S("Error: Unknown operation")
    ELSE CASE operation.str[1] = "add" -> PyAdd(x, y)
           [] operation.str[1] = "subtract" -> PySub(x, y)
           [] operation.str[1] = "multiply" -> PyMul(x, y)
           [] operation.str[1] = "divide" ->
                 IF IsInt(y) /\ y.int = 0 THEN Raise("ZeroDivisionError")
                 ELSE PyDivide(x, y)

\* calculate with the lambdas applied as (y, x)
Calculate_SwapsOperands(operation, x, y) ==
    IF ~(IsStr(operation) /\ Len(operation.str) = 1
            /\ operation.str[1] \in OperationNames)
    THEN [str |-> <<"Error: Unknown operation '">> \o PyStr(operation) \o <<"'">>]
    ELSE CASE operation.str[1] = "add" -> PyAdd(y, x)
           [] operation.str[1] = "subtract" -> PySub(y, x)
           [] operation.str[1] = "multiply" -> PyMul(y, x)
           [] operation.str[1] = "divide" -> PyDivide(y, x)

\* calculate(operation, x, y); operation is a str or an int (both hashable)
Calculate(operation, x, y) ==
    IF ~(IsStr(operation) /\ Len(operation.str) = 1
            /\ operation.str[1] \in OperationNames)
    THEN [str |-> <<"Error: Unknown operation '">> \o PyStr(operation) \o <<"'">>]
    ELSE CASE operation.str[1] = "add" -> PyAdd(x, y)
           [] operation.str[1] = "subtract" -> PySub(x, y)
           [] operation.str[1] = "multiply" -> PyMul(x, y)
           [] operation.str[1] = "divide" -> PyDivide(x, y)

(***************************************************************************)
(* get_random_fact                                                         *)
(***************************************************************************)
\* What requests.get(url, timeout=5) can do: raise a transport exception,
\* [exc |-> name], or deliver a response, [status |-> n, body |-> text].
TransportExceptions == {"Timeout", "ConnectionError", "SSLError", "TooManyRedirects"}
StatusCodes == {200, 201, 204, 400, 404, 429, 500, 503}
FactBodies ==
    { [text |-> "malformed"],
      [json |-> None],
      [json |-> [arr |-> <<>>]],
      [json |-> S("a fact")],
      [json |-> [obj |-> [source |-> S("djtech.net")]]],
      [json |-> [obj |-> [text |-> S("Bananas are berries.")]]],
      [json |-> [obj |-> [text |-> S("Bananas are berries."),
                          source |-> S("djtech.net")]]],
      [json |-> [obj |-> [text |-> None, source |-> S("djtech.net")]]],
      [json |-> [obj |-> [text |-> PyInt(7)]]],
      [json |-> [obj |-> [text |-> [arr |-> <<>>]]]] }
HttpOutcomes ==
    {[exc |-> e] : e \in TransportExceptions}
        \cup [status : StatusCodes, body : FactBodies]

ErrorDict(toks) == [dict |-> << <<"error", [str |-> toks]>> >>]

\* get_random_fact without its try/except and its status check
GetRandomFact_Unguarded(http) ==
    IF "exc" \in DOMAIN http THEN Raise(http.exc)
    ELSE LET data == JsonLoads(http.body) IN
         IF IsRaise(data) THEN data
         ELSE IF ~IsObj(data) THEN Raise("TypeError")
         ELSE [dict |-> << <<"fact",
                   IF "text" \in DOMAIN data.obj THEN data.obj.text ELSE None>>,
                 <<"source",
                   IF "source" \in DOMAIN data.obj THEN data.obj.source
                   ELSE S("Unknown")>> >>]

\* get_random_fact(), given what the GET of line 56 did
GetRandomFact(http) ==
    IF "exc" \in DOMAIN http
    THEN ErrorDict(<<"Error fetching fact: ", http.exc>>)
    ELSE IF http.status = 200
    THEN LET data == JsonLoads(http.body) IN
         IF IsRaise(data)
         THEN ErrorDict(<<"Error fetching fact: ", data.raise>>)
         ELSE IF ~IsObj(data)          \* data["text"] on a non-dict
         THEN ErrorDict(<<"Error fetching fact: ", "TypeError">>)
         ELSE IF "text" \notin DOMAIN data.obj
         THEN ErrorDict(<<"Error fetching fact: ", "'text'">>)
         ELSE LET fact == data.obj.text
                  source == IF "source" \in DOMAIN data.obj
                            THEN data.obj.source ELSE S("Unknown")
              IN  IF ~(IsStr(fact) \/ IsArr(fact))   \* result['fact'][:60]
                  THEN ErrorDict(<<"Error fetching fact: ", "TypeError">>)
                  ELSE [dict |-> << <<"fact", fact>>, <<"source", source>> >>]
    ELSE ErrorDict(<<"Could not fetch random fact. Status: ",
                     ToString(http.status)>>)

(***************************************************************************)
(* The registry and the inputs of run_agent                                *)
(***************************************************************************)
\* available_functions, as the set of its keys; CallFunction dispatches
available_functions == {"calculate", "get_random_fact"}

\* the queries __main__ passes to run_agent, in order
Examples ==
    << "What is 11 multiplied by 11?",
       "Tell me an interesting random fact",
       "Tell me some animal that has 4 legs.",
       "Calculate 50 plus 25, and also tell me a random fact" >>

SystemPrompt ==
    "You are a helpful assistant with access to tools. Use them when needed to answer user questions accurately."

\* What the model may put in one tool-invocation request: any name, and an
\* arguments text that may be malformed or decode to anything.
CalcArgs(operation, x, y) ==
    [json |-> [obj |-> [operation |-> operation, x |-> x, y |-> y]]]
RequestContents ==
    { [name |-> "calculate", arguments |-> CalcArgs(S("add"), PyInt(50), PyInt(25))],
      [name |-> "calculate", arguments |-> CalcArgs(S("divide"), PyInt(1), PyInt(0))],
      [name |-> "calculate", arguments |-> CalcArgs(S("power"), PyInt(1), PyInt(2))],
      [name |-> "calculate", arguments |-> CalcArgs(S("add"), S("a"), PyInt(1))],
      [name |-> "calculate",
       arguments |-> [json |-> [obj |-> [operation |-> S("add"), x |-> PyInt(1)]]]],
      [name |-> "calculate",
       arguments |-> [json |-> [obj |-> [operation |-> S("add"), x |-> PyInt(1),
                                         y |-> PyInt(2), z |-> PyInt(3)]]]],
      [name |-> "calculate", arguments |-> [text |-> "malformed"]],
      [name |-> "get_random_fact", arguments |-> [json |-> [obj |-> <<>>]]],
      [name |-> "get_random_fact",
       arguments |-> [json |-> [obj |-> [count |-> PyInt(2)]]]],
      [name |-> "get_weather", arguments |-> [json |-> [obj |-> <<>>]]],
      [name |-> "get_weather", arguments |-> [text |-> "malformed"]] }

\* The identifiers of the requests of one response are distinct tokens.
CallIds == 1..MaxCalls
ToolCallLists ==
    UNION { { [k \in 1..n |-> [id |-> ids[k], name |-> c[k].name,
                               arguments |-> c[k].arguments]] :
                c \in [1..n -> RequestContents],
                ids \in {f \in [1..n -> CallIds] :
                            \A a, b \in 1..n : a # b => f[a] # f[b]} } :
            n \in 0..MaxCalls }

Contents == {None, S("Dogs have four legs.")}

\* the message of a response; tool_calls None and [] are both <<>>
AssistantMessage(content, tcs) ==
    [role |-> "assistant", content |-> content, tool_calls |-> tcs]

\* how a chat-completion request can fail: the client raises, or the
\* response has no choices[0]
EndpointErrors == {"APIConnectionError", "APIStatusError", "IndexError"}

ChatRequest(msgs, withTools) == [messages |-> msgs, tools |-> withTools]

(***************************************************************************)
(* run_agent                                                               *)
(***************************************************************************)
Init ==
    /\ run = 1
    /\ pc = "main"
    /\ messages = <<>>
    /\ response_message = None
    /\ tool_calls = <<>>
    /\ i = 0
    /\ final_response = None
    /\ final_message = <<>>
    /\ returned = <<>>
    /\ exception = ""
    /\ requestLog = <<>>
    /\ endpointFailures = 0
    /\ executed = <<>>
    /\ probe = [fn |-> "none"]

\* lines 129-136: a fresh conversation of the system prompt and the query
Enter ==
    /\ pc = "main"
    /\ messages' = << [role |-> "system", content |-> S(SystemPrompt)],
                      [role |-> "user", content |-> S(Examples[run])] >>
    /\ pc' = "call1"
    /\ UNCHANGED <<run, response_message, tool_calls, i, final_response,
                   final_message, returned, exception, requestLog,
                   endpointFailures, executed, probe>>

\* a first call that is issued again when it fails
FirstCallFails_Retries ==
    /\ pc = "call1"
    /\ requestLog' = Append(requestLog, ChatRequest(messages, TRUE))
    /\ endpointFailures' = endpointFailures + 1
    /\ pc' = "call1"
    /\ UNCHANGED <<run, messages, response_message, tool_calls, i, final_response,
                   final_message, returned, exception, executed, probe>>

\* lines 140-147: the first request fails; nothing catches the exception
FirstCallFails ==
    /\ pc = "call1"
    /\ requestLog' = Append(requestLog, ChatRequest(messages, TRUE))
    /\ endpointFailures' = endpointFailures + 1
    /\ \E e \in EndpointErrors : exception' = e
    /\ pc' = "raised"
    /\ UNCHANGED <<run, messages, response_message, tool_calls, i, final_response,
                   final_message, returned, executed, probe>>

\* a first call that takes the tool branch whatever tool_calls is
FirstCallNoTools_AppendsAndAsksAgain ==
    /\ pc = "call1"
    /\ requestLog' = Append(requestLog, ChatRequest(messages, TRUE))
    /\ \E content \in Contents :
          /\ response_message' = AssistantMessage(content, <<>>)
          /\ messages' = Append(messages, response_message')
    /\ tool_calls' = <<>>
    /\ i' = 1
    /\ pc' = "loop"
    /\ UNCHANGED <<run, final_response, final_message, returned, exception,
                   endpointFailures, executed, probe>>

\* lines 140-151 and 185-191: no tool calls, the response's text is the
\* final answer; it is printed, and run_agent ends without a return statement
FirstCallNoTools ==
    /\ pc = "call1"
    /\ requestLog' = Append(requestLog, ChatRequest(messages, TRUE))
    /\ \E content \in Contents :
          /\ response_message' = AssistantMessage(content, <<>>)
          /\ final_message' = <<content>>
    /\ tool_calls' = <<>>
    /\ returned' = <<None>>
    /\ pc' = "done"
    /\ UNCHANGED <<run, messages, i, final_response, exception,
                   endpointFailures, executed, probe>>

\* lines 140-155: tool calls, the response message joins the conversation
FirstCallTools ==
    /\ pc = "call1"
    /\ requestLog' = Append(requestLog, ChatRequest(messages, TRUE))
    /\ \E content \in Contents, tcs \in ToolCallLists :
          /\ Len(tcs) > 0
          /\ response_message' = AssistantMessage(content, tcs)
          /\ tool_calls' = tcs
          /\ messages' = Append(messages, response_message')
    /\ i' = 1
    /\ pc' = "loop"
    /\ UNCHANGED <<run, final_response, final_message, returned, exception,
                   endpointFailures, executed, probe>>

\* line 167, function_to_call(**function_args): binding the keyword
\* arguments to the parameters, then the body
CallFunction(function_name, function_args, http) ==
    IF ~IsObj(function_args) THEN Raise("TypeError")
    ELSE IF function_name = "calculate"
    THEN IF DOMAIN function_args.obj # {"operation", "x", "y"}
         THEN Raise("TypeError")
         ELSE Calculate(function_args.obj.operation, function_args.obj.x,
                        function_args.obj.y)
    ELSE IF DOMAIN function_args.obj # {}
         THEN Raise("TypeError")
         ELSE GetRandomFact(http)

\* whether line 167 gets into the function's body
EntersBody(function_name, function_args) ==
    /\ IsObj(function_args)
    /\ DOMAIN function_args.obj =
          (IF function_name = "calculate" THEN {"operation", "x", "y"} ELSE {})

\* lines 159-167 for one tool_call: the function's response, or what raised
ToolOutcome(tool_call, http) ==
    LET function_args == JsonLoads(tool_call.arguments) IN
    IF IsRaise(function_args) THEN function_args
    ELSE IF tool_call.name \notin available_functions THEN Raise("KeyError")
    ELSE CallFunction(tool_call.name, function_args, http)

\* a loop over reversed(tool_calls)
CurrentToolCall_Reversed == tool_calls[Len(tool_calls) + 1 - i]

\* line 158: the for loop takes the tool calls in list order
CurrentToolCall == tool_calls[i]

\* a tool message correlated to tool_calls[0] whatever the tool call
ToolMessage_FirstId(tool_call, function_name, function_response) ==
    [tool_call_id |-> tool_calls[1].id,
     role |-> "tool",
     name |-> function_name,
     content |-> IF IsDict(function_response)
                 THEN [str |-> JsonDumps(function_response)]
                 ELSE [str |-> PyStr(function_response)]]

\* lines 170-175: the tool message of one tool call
ToolMessage(tool_call, function_name, function_response) ==
    [tool_call_id |-> tool_call.id,
     role |-> "tool",
     name |-> function_name,
     content |-> IF IsDict(function_response)
                 THEN [str |-> JsonDumps(function_response)]
                 ELSE [str |-> PyStr(function_response)]]

\* Inside run_agent the fact service does one thing for each branch of
\* get_random_fact; it matters to get_random_fact alone.
AgentHttpOutcomes ==
    { [exc |-> "Timeout"],
      [status |-> 404, body |-> [text |-> "malformed"]],
      [status |-> 200, body |-> [text |-> "malformed"]],
      [status |-> 200, body |-> [json |-> [obj |-> [source |-> S("djtech.net")]]]],
      [status |-> 200, body |-> [json |-> [obj |-> [text |-> S("Bananas are berries."),
                                                    source |-> S("djtech.net")]]]] }
HttpFor(tool_call) ==
    IF tool_call.name = "get_random_fact" /\ "json" \in DOMAIN tool_call.arguments
    THEN AgentHttpOutcomes ELSE {[exc |-> "Timeout"]}

Execution(k, tool_call) == [index |-> k, id |-> tool_call.id, name |-> tool_call.name]

\* lines 158-175, one iteration that completes: the function returns and its
\* tool message is appended
ToolCallReturns ==
    /\ pc = "loop"
    /\ i <= Len(tool_calls)
    /\ \E http \in HttpFor(CurrentToolCall) :
          LET function_response == ToolOutcome(CurrentToolCall, http) IN
          /\ ~IsRaise(function_response)
          /\ messages' = Append(messages,
                ToolMessage(CurrentToolCall, CurrentToolCall.name, function_response))
    /\ executed' = Append(executed, Execution(i, CurrentToolCall))
    /\ i' = i + 1
    /\ UNCHANGED <<run, pc, response_message, tool_calls, final_response,
                   final_message, returned, exception, requestLog,
                   endpointFailures, probe>>

\* lines 158-167, one iteration that raises: json.loads, the registry lookup
\* or the call; nothing catches the exception
ToolCallRaises ==
    /\ pc = "loop"
    /\ i <= Len(tool_calls)
    /\ \E http \in HttpFor(CurrentToolCall) :
          LET function_response == ToolOutcome(CurrentToolCall, http) IN
          /\ IsRaise(function_response)
          /\ exception' = function_response.raise
    /\ executed' =
          IF /\ "json" \in DOMAIN CurrentToolCall.arguments
             /\ CurrentToolCall.name \in available_functions
             /\ EntersBody(CurrentToolCall.name, JsonLoads(CurrentToolCall.arguments))
          THEN Append(executed, Execution(i, CurrentToolCall))
          ELSE executed
    /\ pc' = "raised"
    /\ UNCHANGED <<run, messages, response_message, tool_calls, i, final_response,
                   final_message, returned, requestLog, endpointFailures, probe>>

\* lines 179-184: the second request fails; nothing catches the exception
SecondCallFails ==
    /\ pc = "loop"
    /\ i > Len(tool_calls)
    /\ requestLog' = Append(requestLog, ChatRequest(messages, FALSE))
    /\ endpointFailures' = endpointFailures + 1
    /\ \E e \in EndpointErrors : exception' = e
    /\ pc' = "raised"
    /\ UNCHANGED <<run, messages, response_message, tool_calls, i, final_response,
                   final_message, returned, executed, probe>>

\* the second response may ask for tools again
SecondToolCallLists ==
    { <<>>,
      << [id |-> 1, name |-> "calculate",
          arguments |-> CalcArgs(S("add"), PyInt(50), PyInt(25))] >>,
      << [id |-> 1, name |-> "get_random_fact",
          arguments |-> [json |-> [obj |-> <<>>]]] >> }

\* a second call that loops again when its response asks for tools
SecondCallReturns_AnotherRound ==
    /\ pc = "loop"
    /\ i > Len(tool_calls)
    /\ requestLog' = Append(requestLog, ChatRequest(messages, FALSE))
    /\ \E content \in Contents, tcs \in SecondToolCallLists :
          /\ final_response' = AssistantMessage(content, tcs)
          /\ IF Len(tcs) > 0
             THEN /\ messages' = Append(messages, final_response')
                  /\ tool_calls' = tcs
                  /\ i' = 1
                  /\ UNCHANGED <<pc, final_message, returned>>
             ELSE /\ final_message' = <<content>>
                  /\ returned' = <<None>>
                  /\ pc' = "done"
                  /\ UNCHANGED <<messages, tool_calls, i>>
    /\ UNCHANGED <<run, response_message, exception, endpointFailures,
                   executed, probe>>

\* lines 179-191: the second response's text is the final answer, whatever
\* else the response carries; it is printed, and run_agent ends
SecondCallReturns ==
    /\ pc = "loop"
    /\ i > Len(tool_calls)
    /\ requestLog' = Append(requestLog, ChatRequest(messages, FALSE))
    /\ \E content \in Contents, tcs \in SecondToolCallLists :
          /\ final_response' = AssistantMessage(content, tcs)
          /\ final_message' = <<content>>
    /\ returned' = <<None>>
    /\ pc' = "done"
    /\ UNCHANGED <<run, messages, response_message, tool_calls, i, exception,
                   endpointFailures, executed, probe>>

\* lines 201-210: __main__ goes on to the next query; run_agent's locals are
\* gone. An exception that left run_agent ends the process instead.
NextExample ==
    /\ pc = "done"
    /\ run < Len(Examples)
    /\ run' = run + 1
    /\ pc' = "main"
    /\ messages' = <<>>
    /\ response_message' = None
    /\ tool_calls' = <<>>
    /\ i' = 0
    /\ final_response' = None
    /\ final_message' = <<>>
    /\ returned' = <<>>
    /\ requestLog' = <<>>
    /\ endpointFailures' = 0
    /\ executed' = <<>>
    /\ UNCHANGED <<exception, probe>>

Next ==
    \/ Enter
    \/ FirstCallFails
    \/ FirstCallNoTools
    \/ FirstCallTools
    \/ ToolCallReturns
    \/ ToolCallRaises
    \/ SecondCallFails
    \/ SecondCallReturns
    \/ NextExample

Spec == Init /\ [][Next]_vars

(***************************************************************************)
(* Direct calls of the tool functions                                      *)
(***************************************************************************)
CalcOperations ==
    {S(op) : op \in OperationNames \cup {"power", "unknown_op", ""}} \cup {PyInt(1)}
CalcOperands ==
    {PyInt(n) : n \in (-MaxInt..MaxInt) \cup {11, 25, 50}} \cup {S("a")}

CalcInit ==
    /\ Init!1 /\ Init!2 /\ Init!3 /\ Init!4 /\ Init!5 /\ Init!6 /\ Init!7
    /\ Init!8 /\ Init!9 /\ Init!10 /\ Init!11 /\ Init!12 /\ Init!13
    /\ probe \in [fn : {"calculate"}, phase : {"called"},
                  operation : CalcOperations, x : CalcOperands, y : CalcOperands]

\* calculate(operation, x, y) runs to its return or to an exception
CalcReturn ==
    /\ probe.fn = "calculate"
    /\ probe.phase = "called"
    /\ probe' = [fn |-> "calculate", phase |-> "finished",
                 operation |-> probe.operation, x |-> probe.x, y |-> probe.y,
                 result |-> Calculate(probe.operation, probe.x, probe.y)]
    /\ UNCHANGED agentVars

CalcSpec == CalcInit /\ [][CalcReturn]_vars

FactInit ==
    /\ Init!1 /\ Init!2 /\ Init!3 /\ Init!4 /\ Init!5 /\ Init!6 /\ Init!7
    /\ Init!8 /\ Init!9 /\ Init!10 /\ Init!11 /\ Init!12 /\ Init!13
    /\ probe = [fn |-> "get_random_fact", phase |-> "called"]

\* line 56: the GET is answered, or fails
FactRequest ==
    /\ probe.fn = "get_random_fact"
    /\ probe.phase = "called"
    /\ \E http \in HttpOutcomes :
          probe' = [fn |-> "get_random_fact", phase |-> "answered", http |-> http]
    /\ UNCHANGED agentVars

\* lines 58-70: get_random_fact runs to its return or to an exception
FactReturn ==
    /\ probe.fn = "get_random_fact"
    /\ probe.phase = "answered"
    /\ probe' = [fn |-> "get_random_fact", phase |-> "finished",
                 http |-> probe.http, result |-> GetRandomFact(probe.http)]
    /\ UNCHANGED agentVars

FactNext == FactRequest \/ FactReturn

FactSpec == FactInit /\ [][FactNext]_vars

(***************************************************************************)
(* Properties                                                              *)
(***************************************************************************)
Terminal == pc \in {"done", "raised"}

\* the first response has arrived
Responded == "role" \in DOMAIN response_message

\* the positions of the tool messages of a conversation, in order
RECURSIVE ToolPositions(_, _)
ToolPositions(msgs, from) ==
    IF from > Len(msgs) THEN <<>>
    ELSE (IF msgs[from].role = "tool" THEN <<from>> ELSE <<>>)
         \o ToolPositions(msgs, from + 1)

AssistantPositions(msgs) == {a \in 1..Len(msgs) : msgs[a].role = "assistant"}

Registered(k) == tool_calls[k].name \in available_functions
Decodes(k) == "json" \in DOMAIN tool_calls[k].arguments
UnknownPositions == {k \in 1..Len(tool_calls) : ~Registered(k)}

\* C1: the conversation a second chat-completion request carries holds an
\* assistant message with tool-invocation requests, and each of its requests
\* is followed by exactly one tool message with the request's identifier,
\* and every tool message follows a request with its tool_call_id.
C1_EveryRequestHasOneResult ==
    Len(requestLog) >= 2 =>
        LET msgs == requestLog[2].messages IN
        /\ \E a \in AssistantPositions(msgs) : Len(msgs[a].tool_calls) > 0
        /\ \A a \in AssistantPositions(msgs) :
              \A k \in 1..Len(msgs[a].tool_calls) :
                 Cardinality({j \in (a + 1)..Len(msgs) :
                                 /\ msgs[j].role = "tool"
                                 /\ msgs[j].tool_call_id = msgs[a].tool_calls[k].id}) = 1
        /\ \A j \in 1..Len(msgs) :
              msgs[j].role = "tool" =>
                 \E a \in AssistantPositions(msgs) :
                    /\ a < j
                    /\ \E k \in 1..Len(msgs[a].tool_calls) :
                          msgs[a].tool_calls[k].id = msgs[j].tool_call_id

C1_Witness ==
    /\ Len(requestLog) = 2
    /\ Len(tool_calls) >= 2
    /\ tool_calls[1].id > tool_calls[2].id

\* C2: tool functions are entered one after the other in the order of the
\* requests, each request at most once; the tool messages stand in the
\* conversation in that order; and when the second request is issued every
\* request has been executed once and has its tool message in the
\* conversation the request carries.
C2_InOrderExactlyOnce ==
    /\ \A k \in 1..Len(executed) :
          /\ k <= Len(tool_calls)
          /\ executed[k].index = k
          /\ executed[k].id = tool_calls[k].id
          /\ executed[k].name = tool_calls[k].name
    /\ LET at == ToolPositions(messages, 1) IN
       /\ Len(at) <= Len(executed)
       /\ \A k \in 1..Len(at) :
             /\ messages[at[k]].tool_call_id = tool_calls[k].id
             /\ messages[at[k]].name = tool_calls[k].name
    /\ Len(requestLog) >= 2 =>
          /\ Len(executed) = Len(tool_calls)
          /\ Len(ToolPositions(requestLog[2].messages, 1)) = Len(tool_calls)
          /\ \A k \in 1..Len(tool_calls) :
                LET j == ToolPositions(requestLog[2].messages, 1)[k] IN
                requestLog[2].messages[j].tool_call_id = tool_calls[k].id

C2_Witness ==
    /\ Len(requestLog) = 2
    /\ Len(tool_calls) = 2
    /\ tool_calls[1].name = "calculate"
    /\ tool_calls[2].name = "get_random_fact"
    /\ Len(executed) = 2

OthersWellFormed ==
    \A k \in 1..Len(tool_calls) :
       Registered(k) =>
          /\ Decodes(k)
          /\ EntersBody(tool_calls[k].name, JsonLoads(tool_calls[k].arguments))
          /\ ~IsRaise(ToolOutcome(tool_calls[k], [exc |-> "Timeout"]))

\* C4 as claimed: when a request names a tool absent from the registry, the
\* invocation ends with the lookup failure (KeyError) and in no other way,
\* no tool function is executed for that request or for a later one, no
\* second request is issued and no final answer is produced, wherever the
\* request stands (stated for responses whose requests for registered tools
\* are all well formed, so that nothing else fails before the lookup).
C4_UnknownToolSignalled ==
    (UnknownPositions # {} /\ OthersWellFormed) =>
        LET u == CHOOSE k \in UnknownPositions : \A m \in UnknownPositions : k <= m IN
        /\ Len(requestLog) <= 1
        /\ final_message = <<>>
        /\ \A k \in 1..Len(executed) : executed[k].index < u
        /\ Terminal => (pc = "raised" /\ exception = "KeyError")

\* C5 as claimed: a registered tool called for a request never makes
\* run_agent raise: once the loop has come to the request, the request has
\* its tool message in the conversation and the loop has gone on.
C5_ToolFailuresBecomeResults ==
    \A k \in 1..Len(tool_calls) :
       (Registered(k) /\ Decodes(k) /\ pc \in {"loop", "raised", "done"} /\ i >= k) =>
          /\ ~(pc = "raised" /\ i = k)
          /\ i > k =>
                \E j \in 1..Len(messages) :
                   /\ messages[j].role = "tool"
                   /\ messages[j].tool_call_id = tool_calls[k].id

\* C6: once the endpoint has failed a chat-completion request, the exception
\* has left run_agent: the failure is the only one, the failed request is the
\* last request issued, no final answer is produced, a failed first request
\* is followed by no tool execution, and the process takes no further step.
C6_EndpointFailureIsFatal ==
    endpointFailures > 0 =>
        /\ pc = "raised"
        /\ exception \in EndpointErrors
        /\ endpointFailures = 1
        /\ final_message = <<>>
        /\ returned = <<>>
        /\ Len(requestLog) \in {1, 2}
        /\ Len(requestLog) = 1 => (executed = <<>> /\ Len(messages) = 2)
        /\ Len(requestLog) = 2 =>
              (requestLog[2].messages = messages /\ requestLog[2] # requestLog[1])
        /\ ~ENABLED Next

C6_Witness ==
    /\ pc = "raised"
    /\ endpointFailures = 1
    /\ Len(requestLog) = 2
    /\ Len(executed) = 2
    /\ exception = "APIConnectionError"

\* the literals calculate's error values start with
ErrorTexts == {"Error: Division by zero", "Error: Unknown operation '"}
TextualError(v) == IsStr(v) /\ v.str # <<>> /\ v.str[1] \in ErrorTexts
Finished(fn) == probe.fn = fn /\ probe.phase = "finished"

\* C7: calculate("divide", x, 0) returns a textual error value, whatever x
\* is, and calculate with an operation string outside add, subtract,
\* multiply, divide returns a textual error value with the operation string
\* in it; neither raises.
C7_ErrorValuesNotRaised ==
    Finished("calculate") =>
        /\ (probe.operation = S("divide") /\ probe.y = PyInt(0)) =>
              (~IsRaise(probe.result) /\ TextualError(probe.result))
        /\ (IsStr(probe.operation) /\ probe.operation.str[1] \notin OperationNames) =>
              /\ ~IsRaise(probe.result)
              /\ TextualError(probe.result)
              /\ \E k \in 1..Len(probe.result.str) :
                    probe.result.str[k] = probe.operation.str[1]

C7_Witness ==
    /\ Finished("calculate")
    /\ probe.operation = S("divide")
    /\ probe.x = S("a")
    /\ probe.y = PyInt(0)
    /\ probe.result = S("Error: Division by zero")

\* the body of a 200 response is not JSON, is no JSON object, or has no text
BadBody(body) ==
    \/ "json" \notin DOMAIN body
    \/ ~IsObj(body.json)
    \/ "text" \notin DOMAIN body.json.obj

\* C8: get_random_fact returns a dict with the key error and without the key
\* fact, and does not raise, when the GET raises, when the status is not
\* 200, and when the status is 200 and the body is malformed or lacks text.
C8_ErrorDictNotRaised ==
    (/\ Finished("get_random_fact")
     /\ \/ "exc" \in DOMAIN probe.http
        \/ probe.http.status # 200
        \/ BadBody(probe.http.body)) =>
        /\ ~IsRaise(probe.result)
        /\ IsDict(probe.result)
        /\ "error" \in Keys(probe.result)
        /\ "fact" \notin Keys(probe.result)

C8_Witness ==
    /\ Finished("get_random_fact")
    /\ "status" \in DOMAIN probe.http
    /\ probe.http.status = 200
    /\ probe.http.body = [json |-> [obj |-> [source |-> S("djtech.net")]]]
    /\ Keys(probe.result) = {"error"}

\* C9: for integers x and y, calculate returns the int x + y for add, x - y
\* for subtract and x * y for multiply.
C9_ExactArithmetic ==
    (/\ Finished("calculate")
     /\ IsStr(probe.operation) /\ IsInt(probe.x) /\ IsInt(probe.y)) =>
        /\ probe.operation = S("add") =>
              probe.result = [int |-> probe.x.int + probe.y.int]
        /\ probe.operation = S("subtract") =>
              probe.result = [int |-> probe.x.int - probe.y.int]
        /\ probe.operation = S("multiply") =>
              probe.result = [int |-> probe.x.int * probe.y.int]

C9_Witness ==
    /\ Finished("calculate")
    /\ probe.operation = S("add")
    /\ probe.x = PyInt(50)
    /\ probe.y = PyInt(25)
    /\ probe.result = PyInt(75)

\* what is left of an invocation: it falls with every step run_agent takes
StepsLeft ==
    CASE pc = "main" -> MaxCalls + 4
      [] pc = "call1" -> MaxCalls + 3
      [] pc = "loop" -> Len(tool_calls) + 2 - i
      [] OTHER -> 0

C10_AtMostTwoRequests ==
    /\ Len(requestLog) <= 2
    /\ pc = "done" =>
          Len(requestLog) = (IF response_message.tool_calls = <<>> THEN 1 ELSE 2)
    /\ executed # <<>> => Len(requestLog) >= 1
    /\ Len(requestLog) = 2 =>
          /\ Len(executed) = Len(response_message.tool_calls)
          /\ \A k \in 1..Len(executed) :
                executed[k].id = response_message.tool_calls[k].id
    /\ tool_calls = (IF Responded THEN response_message.tool_calls ELSE <<>>)
    /\ (pc = "main" \/ pc = "call1") => executed = <<>>
    /\ Terminal \/ ENABLED Next

\* C10: an invocation issues at most two chat-completion requests, one when
\* the first response asks for no tool and two when it asks for some and
\* nothing raises; tools are executed after the first request and before
\* the second, those of the first response and no others, whatever the
\* second response asks for; and the invocation ends: short of its end it
\* can always take a step, and each step leaves fewer steps to take.
C10_SingleRoundAndEnds ==
    /\ []C10_AtMostTwoRequests
    /\ [][ /\ pc # "done" => StepsLeft' < StepsLeft
           /\ Len(requestLog) = 2 => (executed' = executed \/ pc' = "main") ]_vars

C10_Witness ==
    /\ pc = "done"
    /\ Len(requestLog) = 2
    /\ Len(final_response.tool_calls) = 1
    /\ Len(executed) = 2
====
